---- MODULE Spec2Model ----
(***************************************************************************)
(* A model of globus_sdk.search.client.SearchClient: the thirteen helper   *)
(* methods of the Globus Search client, each of which stringifies the      *)
(* index identifier, shapes its query parameters, writes one log record,   *)
(* builds a path and hands one request to the base client's transport.     *)
(*                                                                         *)
(* Strings are sequences of one-character strings, so that path joining,   *)
(* trimming and splitting are computed and not assumed.  Python values are *)
(* tagged records ([text |-> s], [int |-> n], [bool |-> b], None).         *)
(***************************************************************************)
EXTENDS Integers, Sequences, FiniteSets, TLC

VARIABLES client, call, events, outcome, inv

vars == <<client, call, events, outcome, inv>>

-----------------------------------------------------------------------------
(* Bounds of the model.                                                    *)

\* longest index identifier / template name drawn over IdAlphabet
MaxIdLen == 2
\* largest integer passed as an index identifier (coerced by str())
MaxIntId == 10
\* threads calling one client at the same time
NThreads == 2

-----------------------------------------------------------------------------
(* Python values.                                                          *)

None == [none |-> TRUE]
\* a keyword argument the caller did not pass: the def's default applies
Omitted == [omitted |-> TRUE]
Text(s) == [text |-> s]
Bytes(s) == [bytes |-> s]
Num(n) == [int |-> n]
Bool(b) == [bool |-> b]
\* the empty dict
EmptyParams == <<>>

Sep == "/"

\* string literals of the source
V1_INDEX == <<"v", "1", "/", "i", "n", "d", "e", "x">>
SEARCH == <<"s", "e", "a", "r", "c", "h">>
INGEST == <<"i", "n", "g", "e", "s", "t">>
DELETE_BY_QUERY ==
    <<"d", "e", "l", "e", "t", "e", "_", "b", "y", "_", "q", "u", "e", "r", "y">>
SUBJECT == <<"s", "u", "b", "j", "e", "c", "t">>
ENTRY == <<"e", "n", "t", "r", "y">>
QUERY_TEMPLATE ==
    <<"q", "u", "e", "r", "y", "_", "t", "e", "m", "p", "l", "a", "t", "e">>

\* def search(..., offset=0, limit=10, query_template=None, advanced=False)
DefaultOffset == 0
DefaultLimit == 10
DefaultQueryTemplate == None
DefaultAdvanced == Bool(FALSE)
\* def get_entry / delete_entry (..., entry_id=None, ...)
DefaultEntryId == None

\* a keyword argument as the function body sees it
Arg(given, default) == IF given = Omitted THEN default ELSE given

-----------------------------------------------------------------------------
(* globus_sdk.base helpers the client imports.                             *)

RECURSIVE Digits(_)
\* str(n) of a non-negative integer
Digits(n) ==
    LET d == <<"0", "1", "2", "3", "4", "5", "6", "7", "8", "9">>[(n % 10) + 1]
    IN IF n < 10 THEN <<d>> ELSE Digits(n \div 10) \o <<d>>

\* safe_stringify: text is kept, bytes are decoded, anything else goes
\* through str()
safe_stringify(value) ==
    IF "text" \in DOMAIN value THEN value.text
    ELSE IF "bytes" \in DOMAIN value THEN value.bytes
    ELSE Digits(value.int)

RECURSIVE TrimLeft(_)
TrimLeft(s) == IF s # <<>> /\ Head(s) = Sep THEN TrimLeft(Tail(s)) ELSE s

RECURSIVE TrimRight(_)
TrimRight(s) ==
    IF s # <<>> /\ s[Len(s)] = Sep THEN TrimRight(SubSeq(s, 1, Len(s) - 1)) ELSE s

\* a path part without its leading and trailing separators
Trim(s) == TrimRight(TrimLeft(s))

RECURSIVE JoinParts(_)
\* the parts with exactly one separator between neighbours
JoinParts(parts) ==
    IF parts = <<>> THEN <<>>
    ELSE IF Len(parts) = 1 THEN Trim(parts[1])
    ELSE Trim(parts[1]) \o <<Sep>> \o JoinParts(Tail(parts))

\* BaseClient.qjoin_path(*parts)
qjoin_path(parts) == <<Sep>> \o JoinParts(parts)

\* merge_params(base_params, **more_params): every named parameter that is
\* not None is written into base_params, in place.  It is a procedure: the
\* value of the call expression is None.
merge_params(base_params, more_params) ==
    LET kept == {k \in DOMAIN more_params : more_params[k] # None}
    IN [params |-> [k \in (DOMAIN base_params) \cup kept |->
                       IF k \in kept THEN more_params[k] ELSE base_params[k]],
        ret |-> None]

-----------------------------------------------------------------------------
(* What a method does, in program order: log records and transport calls. *)

\* self.logger.info(fmt.format(*args))
LogInfo(name, args) ==
    [do |-> "log", level |-> "info", name |-> name, args |-> args]

\* self.get / self.post / self.put / self.delete (path, params or body)
Request(verb, path, params, body) ==
    [do |-> "request", verb |-> verb, path |-> path, params |-> params,
     body |-> body]

-----------------------------------------------------------------------------
(* The thirteen methods.  Each yields its effects in program order; the    *)
(* method returns what its transport call returns.                         *)

\* get_index calling the transport a second time
get_index_retry(index_id, params) ==
    LET id == safe_stringify(index_id)
    IN << LogInfo("get_index", <<Text(id)>>),
          Request("GET", qjoin_path(<<V1_INDEX, id>>), params, None),
          Request("GET", qjoin_path(<<V1_INDEX, id>>), params, None) >>

get_index(index_id, params) ==
    LET id == safe_stringify(index_id)
    IN << LogInfo("get_index", <<Text(id)>>),
          Request("GET", qjoin_path(<<V1_INDEX, id>>), params, None) >>

\* search passing advanced on only when it is set
search_advanced_if_set(index_id, q, offset, limit, query_template, advanced, params) ==
    LET id == safe_stringify(index_id)
        m == merge_params(params,
                 [q |-> q, offset |-> offset, limit |-> limit,
                  query_template |-> query_template,
                  advanced |-> IF advanced = Bool(TRUE) THEN advanced ELSE None])
    IN << LogInfo("search", <<Text(id)>>),
          Request("GET", qjoin_path(<<V1_INDEX, id, SEARCH>>), m.params, None) >>

\* search sending an empty query_template when none is given
search_empty_template(index_id, q, offset, limit, query_template, advanced, params) ==
    LET id == safe_stringify(index_id)
        m == merge_params(params,
                 [q |-> q, offset |-> offset, limit |-> limit,
                  query_template |->
                      IF query_template = None THEN Text(<<>>) ELSE query_template,
                  advanced |-> advanced])
    IN << LogInfo("search", <<Text(id)>>),
          Request("GET", qjoin_path(<<V1_INDEX, id, SEARCH>>), m.params, None) >>

search(index_id, q, offset, limit, query_template, advanced, params) ==
    LET id == safe_stringify(index_id)
        m == merge_params(params,
                 [q |-> q, offset |-> offset, limit |-> limit,
                  query_template |-> query_template, advanced |-> advanced])
    IN << LogInfo("search", <<Text(id)>>),
          Request("GET", qjoin_path(<<V1_INDEX, id, SEARCH>>), m.params, None) >>

post_search(index_id, data) ==
    LET id == safe_stringify(index_id)
    IN << LogInfo("post_search", <<Text(id)>>),
          Request("POST", qjoin_path(<<V1_INDEX, id, SEARCH>>), None, data) >>

\* ingest joining the path parts in the wrong order
ingest_swapped(index_id, data) ==
    LET id == safe_stringify(index_id)
    IN << LogInfo("ingest", <<Text(id)>>),
          Request("POST", qjoin_path(<<V1_INDEX, INGEST, id>>), None, data) >>

ingest(index_id, data) ==
    LET id == safe_stringify(index_id)
    IN << LogInfo("ingest", <<Text(id)>>),
          Request("POST", qjoin_path(<<V1_INDEX, id, INGEST>>), None, data) >>

\* delete_by_query logging only once the transport call is back
delete_by_query_log_after(index_id, data) ==
    LET id == safe_stringify(index_id)
    IN << Request("POST", qjoin_path(<<V1_INDEX, id, DELETE_BY_QUERY>>), None,
                  data),
          LogInfo("delete_by_query", <<Text(id)>>) >>

delete_by_query(index_id, data) ==
    LET id == safe_stringify(index_id)
    IN << LogInfo("delete_by_query", <<Text(id)>>),
          Request("POST", qjoin_path(<<V1_INDEX, id, DELETE_BY_QUERY>>), None,
                  data) >>

\* params = merge_params(params, subject=subject): the name params is
\* rebound to the value of the call
get_subject(index_id, subject, params) ==
    LET id == safe_stringify(index_id)
        m == merge_params(params, [subject |-> subject])
    IN << LogInfo("get_subject", <<Text(id), subject>>),
          Request("GET", qjoin_path(<<V1_INDEX, id, SUBJECT>>), m.ret, None) >>

delete_subject(index_id, subject, params) ==
    LET id == safe_stringify(index_id)
        m == merge_params(params, [subject |-> subject])
    IN << LogInfo("delete_subject", <<Text(id), subject>>),
          Request("DELETE", qjoin_path(<<V1_INDEX, id, SUBJECT>>), m.ret, None) >>

get_entry(index_id, subject, entry_id, params) ==
    LET id == safe_stringify(index_id)
        m == merge_params(params, [subject |-> subject, entry_id |-> entry_id])
    IN << LogInfo("get_entry", <<Text(id), subject, entry_id>>),
          Request("GET", qjoin_path(<<V1_INDEX, id, ENTRY>>), m.ret, None) >>

create_entry(index_id, data) ==
    LET id == safe_stringify(index_id)
    IN << LogInfo("create_entry", <<Text(id)>>),
          Request("POST", qjoin_path(<<V1_INDEX, id, ENTRY>>), None, data) >>

\* update_entry sent with create_entry's verb
update_entry_post(index_id, data) ==
    LET id == safe_stringify(index_id)
    IN << LogInfo("update_entry", <<Text(id)>>),
          Request("POST", qjoin_path(<<V1_INDEX, id, ENTRY>>), None, data) >>

update_entry(index_id, data) ==
    LET id == safe_stringify(index_id)
    IN << LogInfo("update_entry", <<Text(id)>>),
          Request("PUT", qjoin_path(<<V1_INDEX, id, ENTRY>>), None, data) >>

delete_entry(index_id, subject, entry_id, params) ==
    LET id == safe_stringify(index_id)
        m == merge_params(params, [subject |-> subject, entry_id |-> entry_id])
    IN << LogInfo("delete_entry", <<Text(id), subject, entry_id>>),
          Request("DELETE", qjoin_path(<<V1_INDEX, id, ENTRY>>), m.ret, None) >>

get_query_template(index_id, template_name) ==
    LET id == safe_stringify(index_id)
    IN << LogInfo("get_query_template", <<Text(id), Text(template_name)>>),
          Request("GET", qjoin_path(<<V1_INDEX, id, QUERY_TEMPLATE, template_name>>),
                  None, None) >>

get_query_template_list(index_id) ==
    LET id == safe_stringify(index_id)
    IN << LogInfo("get_query_template_list", <<Text(id)>>),
          Request("GET", qjoin_path(<<V1_INDEX, id, QUERY_TEMPLATE>>), None, None) >>

-----------------------------------------------------------------------------
(* Class attributes and construction.                                      *)

\* the list with basic auth let in
allowed_authorizer_types_with_basic ==
    {"AccessTokenAuthorizer", "RefreshTokenAuthorizer",
     "ClientCredentialsAuthorizer", "BasicAuthorizer"}

\* disallow basic auth
allowed_authorizer_types ==
    {"AccessTokenAuthorizer", "RefreshTokenAuthorizer",
     "ClientCredentialsAuthorizer"}

error_class == "SearchAPIError"

default_response_class == "GlobusHTTPResponse"

\* every authorizer class of the SDK a caller can construct
AuthorizerTypes ==
    {"AccessTokenAuthorizer", "RefreshTokenAuthorizer",
     "ClientCredentialsAuthorizer", "BasicAuthorizer"}

\* SearchClient(authorizer=None): BaseClient.__init__ refuses an authorizer
\* whose class is not among allowed_authorizer_types
SearchClient(authorizer) ==
    IF authorizer # None /\ authorizer.type \notin allowed_authorizer_types
    THEN [constructed |-> FALSE, service |-> "search", given |-> authorizer,
          authorizer |-> None]
    ELSE [constructed |-> TRUE, service |-> "search", given |-> authorizer,
          authorizer |-> authorizer]

-----------------------------------------------------------------------------
(* The transport: BaseClient.get/post/put/delete and what the service may  *)
(* answer.                                                                 *)

\* the Authorization header an authorizer sets
AuthorizationHeader(authorizer) ==
    IF authorizer = None THEN None
    ELSE IF authorizer.type = "BasicAuthorizer" THEN [basic |-> authorizer.type]
    ELSE [bearer |-> authorizer.type]

\* the query string of the request: a parameter whose value is None is not
\* encoded
EncodeParams(params) ==
    IF params = None THEN EmptyParams
    ELSE [k \in {n \in DOMAIN params : params[n] # None} |-> params[k]]

NetworkFailure == [network_error |-> TRUE]

OkResponse == [status |-> 200, body |-> [index_id |-> "abc", subject |-> "s"]]

NotFoundResponse ==
    [status |-> 404, body |-> [code |-> "NotFound", message |-> "no such index"]]

\* what one HTTP round trip can end with
Responses == {OkResponse, NotFoundResponse, NetworkFailure}

\* error_class(r): the typed error of a non-2xx answer
ApiError(r) ==
    [error |-> error_class, http_status |-> r.status, code |-> r.body.code,
     message |-> r.body.message]

\* default_response_class(r)
ResponseWrapper(r) ==
    [response |-> default_response_class, http_status |-> r.status,
     data |-> r.body]

\* one call of the transport with answer r: the request as handed over, the
\* request as it goes out, and the call's result
Transport(cl, req, r) ==
    [event |-> [ev |-> "transport",
                handed |-> [verb |-> req.verb, path |-> req.path,
                            params |-> req.params, body |-> req.body],
                wire |-> [verb |-> req.verb, path |-> req.path,
                          query |-> EncodeParams(req.params), body |-> req.body,
                          auth |-> AuthorizationHeader(cl.authorizer)],
                answer |-> r],
     raised |-> (r = NetworkFailure) \/ ~(r.status \in 200..299),
     result |-> IF r = NetworkFailure THEN r
                ELSE IF r.status \in 200..299 THEN ResponseWrapper(r)
                ELSE ApiError(r)]

Returned(value) == [kind |-> "returned", value |-> value]
Raised(err) == [kind |-> "raised", value |-> err]

RECURSIVE Exec(_, _, _, _)
\* the effects of a method run in order against a transport that answers r:
\* an error raised by the transport ends the method there
Exec(steps, r, cl, last) ==
    IF steps = <<>> THEN [events |-> <<>>, outcome |-> Returned(last)]
    ELSE LET s == Head(steps)
         IN IF s.do = "log"
            THEN LET rest == Exec(Tail(steps), r, cl, last)
                 IN [events |-> <<[ev |-> "log", level |-> s.level,
                                   name |-> s.name, args |-> s.args]>>
                                \o rest.events,
                     outcome |-> rest.outcome]
            ELSE LET t == Transport(cl, s, r)
                 IN IF t.raised
                    THEN [events |-> <<t.event>>, outcome |-> Raised(t.result)]
                    ELSE LET rest == Exec(Tail(steps), r, cl, t.result)
                         IN [events |-> <<t.event>> \o rest.events,
                             outcome |-> rest.outcome]

-----------------------------------------------------------------------------
(* Inputs.                                                                 *)

IdAlphabet == {Sep, "v", "1"}

Strs(n) == UNION {[1..k -> IdAlphabet] : k \in 0..n}

ABC_123 == <<"a", "b", "c", "-", "1", "2", "3">>
HELLO == <<"h", "e", "l", "l", "o">>

IndexIds ==
    {Text(s) : s \in Strs(MaxIdLen)} \cup {Text(ABC_123), Bytes(<<"v", "1">>)}
        \cup {Num(n) : n \in 0..MaxIntId}

TemplateNames == Strs(MaxIdLen)

Queries == {Text(HELLO), Text(<<>>)}
Offsets == {Omitted, None, Num(5)}
Limits == {Omitted, None, Num(5)}
QueryTemplates == {Omitted, None, Text(<<"t">>)}
\* advanced is a bool
Advanceds == {Omitted, Bool(TRUE), Bool(FALSE)}
Subjects == {Text(<<"s">>), Text(<<"h", ":", "/", "/", "x">>)}
EntryIds == {Omitted, None, Text(<<"e">>)}
\* **params: the caller's extra keyword arguments
ExtraParams == {EmptyParams, [x |-> Text(<<"1">>)], [x |-> None]}
\* JSON documents
Payloads ==
    {[object |-> [subject |-> "s", content |-> "c"]], [array |-> <<>>],
     [scalar |-> 1]}

Authorizers == {[type |-> t] : t \in AuthorizerTypes} \cup {None}

NoCall == [op |-> "none"]

-----------------------------------------------------------------------------
(* Calling a method: Python binds the arguments, the defaults of the def   *)
(* standing in for keywords the caller left out.                           *)

\* the dict the caller unpacks with **: absent for a method without **params
CallerKw(c) == IF "params" \in DOMAIN c THEN c.params ELSE EmptyParams

\* the method body for call c, with params the method's own keyword dict
Dispatch(c, params) ==
    CASE c.op = "get_index" -> get_index(c.index_id, params)
      [] c.op = "search" ->
            search(c.index_id, c.q, Arg(c.offset, Num(DefaultOffset)),
                   Arg(c.limit, Num(DefaultLimit)),
                   Arg(c.query_template, DefaultQueryTemplate),
                   Arg(c.advanced, DefaultAdvanced), params)
      [] c.op = "post_search" -> post_search(c.index_id, c.data)
      [] c.op = "ingest" -> ingest(c.index_id, c.data)
      [] c.op = "delete_by_query" -> delete_by_query(c.index_id, c.data)
      [] c.op = "get_subject" -> get_subject(c.index_id, c.subject, params)
      [] c.op = "delete_subject" -> delete_subject(c.index_id, c.subject, params)
      [] c.op = "get_entry" ->
            get_entry(c.index_id, c.subject, Arg(c.entry_id, DefaultEntryId),
                      params)
      [] c.op = "create_entry" -> create_entry(c.index_id, c.data)
      [] c.op = "update_entry" -> update_entry(c.index_id, c.data)
      [] c.op = "delete_entry" ->
            delete_entry(c.index_id, c.subject, Arg(c.entry_id, DefaultEntryId),
                         params)
      [] c.op = "get_query_template" ->
            get_query_template(c.index_id, c.template_name)
      [] c.op = "get_query_template_list" -> get_query_template_list(c.index_id)

-----------------------------------------------------------------------------
(* One client, one call at a time.                                         *)

Init ==
    /\ client \in {SearchClient(a) : a \in Authorizers}
    /\ call = NoCall
    /\ events = <<>>
    /\ outcome = None
    /\ inv = <<>>

\* there is a client and no call of it is under way
Idle == client.constructed /\ call = NoCall

\* the method called as c runs to its return or raise, the transport
\* answering r
Invoke(c, r) ==
    /\ LET x == Exec(Dispatch(c, CallerKw(c)), r, client, None)
       IN /\ call' = c
          /\ events' = x.events
          /\ outcome' = x.outcome
    /\ UNCHANGED <<client, inv>>

Do_get_index ==
    /\ Idle
    /\ \E id \in IndexIds, p \in ExtraParams, r \in Responses :
           Invoke([op |-> "get_index", index_id |-> id, params |-> p], r)

Do_search ==
    /\ Idle
    /\ \E id \in IndexIds, q \in Queries, o \in Offsets, l \in Limits,
          qt \in QueryTemplates, a \in Advanceds, p \in ExtraParams,
          r \in Responses :
           Invoke([op |-> "search", index_id |-> id, q |-> q, offset |-> o,
                   limit |-> l, query_template |-> qt, advanced |-> a,
                   params |-> p], r)

Do_post_search ==
    /\ Idle
    /\ \E id \in IndexIds, d \in Payloads, r \in Responses :
           Invoke([op |-> "post_search", index_id |-> id, data |-> d], r)

Do_ingest ==
    /\ Idle
    /\ \E id \in IndexIds, d \in Payloads, r \in Responses :
           Invoke([op |-> "ingest", index_id |-> id, data |-> d], r)

Do_delete_by_query ==
    /\ Idle
    /\ \E id \in IndexIds, d \in Payloads, r \in Responses :
           Invoke([op |-> "delete_by_query", index_id |-> id, data |-> d], r)

Do_get_subject ==
    /\ Idle
    /\ \E id \in IndexIds, s \in Subjects, p \in ExtraParams, r \in Responses :
           Invoke([op |-> "get_subject", index_id |-> id, subject |-> s,
                   params |-> p], r)

Do_delete_subject ==
    /\ Idle
    /\ \E id \in IndexIds, s \in Subjects, p \in ExtraParams, r \in Responses :
           Invoke([op |-> "delete_subject", index_id |-> id, subject |-> s,
                   params |-> p], r)

Do_get_entry ==
    /\ Idle
    /\ \E id \in IndexIds, s \in Subjects, e \in EntryIds, p \in ExtraParams,
          r \in Responses :
           Invoke([op |-> "get_entry", index_id |-> id, subject |-> s,
                   entry_id |-> e, params |-> p], r)

Do_create_entry ==
    /\ Idle
    /\ \E id \in IndexIds, d \in Payloads, r \in Responses :
           Invoke([op |-> "create_entry", index_id |-> id, data |-> d], r)

Do_update_entry ==
    /\ Idle
    /\ \E id \in IndexIds, d \in Payloads, r \in Responses :
           Invoke([op |-> "update_entry", index_id |-> id, data |-> d], r)

Do_delete_entry ==
    /\ Idle
    /\ \E id \in IndexIds, s \in Subjects, e \in EntryIds, p \in ExtraParams,
          r \in Responses :
           Invoke([op |-> "delete_entry", index_id |-> id, subject |-> s,
                   entry_id |-> e, params |-> p], r)

Do_get_query_template ==
    /\ Idle
    /\ \E id \in IndexIds, n \in TemplateNames, r \in Responses :
           Invoke([op |-> "get_query_template", index_id |-> id,
                   template_name |-> n], r)

Do_get_query_template_list ==
    /\ Idle
    /\ \E id \in IndexIds, r \in Responses :
           Invoke([op |-> "get_query_template_list", index_id |-> id], r)

\* the caller has the method's result (or its exception) and the client is
\* ready for the next call
CallerContinues ==
    /\ call # NoCall
    /\ call' = NoCall
    /\ events' = <<>>
    /\ outcome' = None
    /\ UNCHANGED <<client, inv>>

Next ==
    \/ Do_get_index
    \/ Do_search
    \/ Do_post_search
    \/ Do_ingest
    \/ Do_delete_by_query
    \/ Do_get_subject
    \/ Do_delete_subject
    \/ Do_get_entry
    \/ Do_create_entry
    \/ Do_update_entry
    \/ Do_delete_entry
    \/ Do_get_query_template
    \/ Do_get_query_template_list
    \/ CallerContinues

Spec == Init /\ [][Next]_vars

-----------------------------------------------------------------------------
(* One client called from several threads.  A call is the method body up   *)
(* to its return: binding the arguments, then its effects one at a time,   *)
(* the transport call being a round trip other threads can overlap.        *)

Threads == 1..NThreads

IdleThread == [pc |-> "idle"]

\* the calls the threads make
ConcCalls ==
    LET id == Text(<<"v">>)
        d == [object |-> [subject |-> "s", content |-> "c"]]
        sub == Text(<<"s">>)
    IN {[op |-> "get_index", index_id |-> id, params |-> p] :
            p \in {EmptyParams, [x |-> Text(<<"1">>)]}}
       \cup {[op |-> "search", index_id |-> id, q |-> Text(HELLO),
              offset |-> o, limit |-> Omitted, query_template |-> Omitted,
              advanced |-> Omitted, params |-> EmptyParams] :
                o \in {Omitted, Num(5)}}
       \cup {[op |-> o, index_id |-> id, data |-> d] : o \in
                {"post_search", "ingest", "delete_by_query", "create_entry",
                 "update_entry"}}
       \cup {[op |-> o, index_id |-> id, subject |-> sub, params |-> EmptyParams] :
                o \in {"get_subject", "delete_subject"}}
       \cup {[op |-> o, index_id |-> id, subject |-> sub, entry_id |-> Omitted,
              params |-> EmptyParams] : o \in {"get_entry", "delete_entry"}}
       \cup {[op |-> "get_query_template", index_id |-> id,
              template_name |-> <<"1">>],
             [op |-> "get_query_template_list", index_id |-> id]}

ConcResponses == {OkResponse, NotFoundResponse}

InitConc ==
    /\ client = SearchClient([type |-> "AccessTokenAuthorizer"])
    /\ call = NoCall
    /\ events = <<>>
    /\ outcome = None
    /\ inv = [t \in Threads |-> IdleThread]

\* the parameters some call of this client has already handed over
HandedSoFar ==
    {inv[u].sent.handed.params : u \in {v \in Threads :
        /\ inv[v].pc \in {"waiting", "done"}
        /\ inv[v].sent # None
        /\ inv[v].sent.handed.params # None}}

\* a method whose keyword dict is one object shared by all calls (a mutable
\* default in place of **params): what earlier calls merged in is still there
Enter_shared_dict(t) ==
    /\ client.constructed
    /\ inv[t].pc = "idle"
    /\ \E c \in ConcCalls, left \in HandedSoFar \cup {EmptyParams} :
           inv' = [inv EXCEPT ![t] =
                      [pc |-> "called", call |-> c, kw |-> CallerKw(c),
                       steps |-> Dispatch(c, CallerKw(c) @@ left), logged |-> <<>>,
                       sent |-> None, outcome |-> None]]
    /\ UNCHANGED <<client, call, events, outcome>>

\* thread t calls a method: Python binds the arguments, **params to a fresh
\* dict holding the caller's extra keywords, and the body's effects follow
Enter(t) ==
    /\ client.constructed
    /\ inv[t].pc = "idle"
    /\ \E c \in ConcCalls :
           inv' = [inv EXCEPT ![t] =
                      [pc |-> "called", call |-> c, kw |-> CallerKw(c),
                       steps |-> Dispatch(c, CallerKw(c)), logged |-> <<>>,
                       sent |-> None, outcome |-> None]]
    /\ UNCHANGED <<client, call, events, outcome>>

\* self.logger.info(...)
Log(t) ==
    /\ inv[t].pc = "called"
    /\ inv[t].steps # <<>>
    /\ Head(inv[t].steps).do = "log"
    /\ inv' = [inv EXCEPT ![t].steps = Tail(@),
                          ![t].logged = Append(@, Head(inv[t].steps))]
    /\ UNCHANGED <<client, call, events, outcome>>

\* self.get / post / put / delete: the request leaves, built from this
\* call's values and the client's authorizer
Send(t) ==
    /\ inv[t].pc = "called"
    /\ inv[t].steps # <<>>
    /\ Head(inv[t].steps).do = "request"
    /\ LET e == Transport(client, Head(inv[t].steps), OkResponse).event
       IN inv' = [inv EXCEPT ![t].steps = Tail(@),
                             ![t].pc = "waiting",
                             ![t].sent = [handed |-> e.handed, wire |-> e.wire]]
    /\ UNCHANGED <<client, call, events, outcome>>

\* the answer arrives: the method returns the wrapper or raises the error
Receive(t) ==
    /\ inv[t].pc = "waiting"
    /\ \E r \in ConcResponses :
           LET res == Transport(client, inv[t].sent.handed, r)
           IN inv' = [inv EXCEPT ![t].pc = "done",
                                 ![t].steps = <<>>,
                                 ![t].outcome = IF res.raised THEN Raised(res.result)
                                                ELSE Returned(res.result)]
    /\ UNCHANGED <<client, call, events, outcome>>

\* the caller has the result or the exception; the thread is free again
Return(t) ==
    /\ inv[t].pc = "done"
    /\ inv' = [inv EXCEPT ![t] = IdleThread]
    /\ UNCHANGED <<client, call, events, outcome>>

NextConc ==
    \E t \in Threads :
        \/ Enter(t)
        \/ Log(t)
        \/ Send(t)
        \/ Receive(t)
        \/ Return(t)

SpecConc == InitConc /\ [][NextConc]_vars

-----------------------------------------------------------------------------
(* Reading a finished call.                                                *)

IsTransport(e) == e.ev = "transport"
IsLog(e) == e.ev = "log"

\* the transport calls and the log records of the call, in order
TransportEvents == SelectSeq(events, IsTransport)
LogEvents == SelectSeq(events, IsLog)

Called == call # NoCall

\* the string form of the call's index identifier
StrId == safe_stringify(call.index_id)

BodyOps == {"post_search", "ingest", "delete_by_query", "create_entry", "update_entry"}
SubjectOps == {"get_subject", "delete_subject"}
EntryOps == {"get_entry", "delete_entry"}
ParamOps == {"get_index", "search"} \cup SubjectOps \cup EntryOps

RECURSIVE Split(_)
\* the pieces of s between its separators
Split(s) ==
    IF \A i \in DOMAIN s : s[i] # Sep THEN <<s>>
    ELSE LET i == CHOOSE j \in DOMAIN s :
                      s[j] = Sep /\ \A k \in 1..(j - 1) : s[k] # Sep
         IN <<SubSeq(s, 1, i - 1)>> \o Split(SubSeq(s, i + 1, Len(s)))

\* the segments of a path that starts with the separator
PathSegments(path) == Split(Tail(path))

HasDoubleSep(path) ==
    \E i \in 1..(Len(path) - 1) : path[i] = Sep /\ path[i + 1] = Sep

SeparatorFree(s) == s # <<>> /\ \A i \in DOMAIN s : s[i] # Sep

\* the operation table of the API: verb and the path after /v1/index/{id}
TableVerb ==
    [get_index |-> "GET", search |-> "GET", post_search |-> "POST",
     ingest |-> "POST", delete_by_query |-> "POST", get_subject |-> "GET",
     delete_subject |-> "DELETE", get_entry |-> "GET", create_entry |-> "POST",
     update_entry |-> "PUT", delete_entry |-> "DELETE",
     get_query_template |-> "GET", get_query_template_list |-> "GET"]

TableSuffix ==
    [get_index |-> <<>>,
     search |-> <<"/", "s", "e", "a", "r", "c", "h">>,
     post_search |-> <<"/", "s", "e", "a", "r", "c", "h">>,
     ingest |-> <<"/", "i", "n", "g", "e", "s", "t">>,
     delete_by_query |-> <<"/", "d", "e", "l", "e", "t", "e", "_", "b", "y", "_",
                           "q", "u", "e", "r", "y">>,
     get_subject |-> <<"/", "s", "u", "b", "j", "e", "c", "t">>,
     delete_subject |-> <<"/", "s", "u", "b", "j", "e", "c", "t">>,
     get_entry |-> <<"/", "e", "n", "t", "r", "y">>,
     create_entry |-> <<"/", "e", "n", "t", "r", "y">>,
     update_entry |-> <<"/", "e", "n", "t", "r", "y">>,
     delete_entry |-> <<"/", "e", "n", "t", "r", "y">>,
     get_query_template |-> <<"/", "q", "u", "e", "r", "y", "_", "t", "e", "m",
                              "p", "l", "a", "t", "e">>,
     get_query_template_list |-> <<"/", "q", "u", "e", "r", "y", "_", "t", "e",
                                   "m", "p", "l", "a", "t", "e">>]

\* the table's path for the call: {id} and {name} stand for the trimmed
\* string forms of the identifier and the template name
TablePath ==
    <<"/", "v", "1", "/", "i", "n", "d", "e", "x", "/">> \o Trim(StrId)
        \o TableSuffix[call.op]
        \o (IF call.op = "get_query_template"
            THEN <<"/">> \o Trim(call.template_name) ELSE <<>>)

-----------------------------------------------------------------------------
(* C1: every request handed to the transport has the verb and the path of *)
(* the operation table for the operation called, and the five body         *)
(* operations hand over the caller's data unchanged as the body, with no   *)
(* query parameters.                                                       *)
C1_OperationTable ==
    Called =>
        \A i \in DOMAIN TransportEvents :
            LET e == TransportEvents[i]
            IN /\ e.handed.verb = TableVerb[call.op]
               /\ e.handed.path = TablePath
               /\ e.wire.verb = e.handed.verb
               /\ e.wire.path = e.handed.path
               /\ call.op \in BodyOps =>
                      /\ e.handed.body = call.data
                      /\ e.wire.body = call.data
                      /\ e.handed.params = None
                      /\ e.wire.query = EmptyParams

C1_Witness ==
    /\ call.op = "update_entry"
    /\ call.index_id = Text(ABC_123)
    /\ call.data = [array |-> <<>>]
    /\ Len(TransportEvents) = 1
    /\ TransportEvents[1].handed.verb = "PUT"
    /\ TransportEvents[1].handed.path =
           <<"/", "v", "1", "/", "i", "n", "d", "e", "x", "/", "a", "b", "c", "-",
             "1", "2", "3", "/", "e", "n", "t", "r", "y">>
    /\ TransportEvents[1].handed.body = [array |-> <<>>]

-----------------------------------------------------------------------------
(* C2: search transmits offset=0 and limit=10 when they are omitted,       *)
(* always transmits advanced (false when it is not set), transmits q       *)
(* verbatim, and leaves query_template out when it is omitted; the call    *)
(* search("abc-123", "hello") transmits exactly q=hello, offset=0,         *)
(* limit=10, advanced=false on GET /v1/index/abc-123/search.               *)
C2_SearchDefaults ==
    (Called /\ call.op = "search") =>
        \A i \in DOMAIN TransportEvents :
            LET e == TransportEvents[i]
                Shaped(sent) ==
                    /\ call.offset = Omitted =>
                           "offset" \in DOMAIN sent /\ sent.offset = Num(0)
                    /\ call.limit = Omitted =>
                           "limit" \in DOMAIN sent /\ sent.limit = Num(10)
                    /\ "advanced" \in DOMAIN sent
                    /\ sent.advanced =
                           (IF call.advanced = Omitted THEN Bool(FALSE)
                            ELSE call.advanced)
                    /\ "q" \in DOMAIN sent /\ sent.q = call.q
                    /\ call.query_template = Omitted =>
                           "query_template" \notin DOMAIN sent
                    /\ ( /\ call.index_id = Text(ABC_123)
                         /\ call.q = Text(HELLO)
                         /\ call.offset = Omitted /\ call.limit = Omitted
                         /\ call.query_template = Omitted
                         /\ call.advanced = Omitted
                         /\ call.params = EmptyParams )
                       => /\ e.wire.verb = "GET"
                          /\ e.wire.path =
                                 <<"/", "v", "1", "/", "i", "n", "d", "e", "x", "/",
                                   "a", "b", "c", "-", "1", "2", "3", "/", "s", "e",
                                   "a", "r", "c", "h">>
                          /\ sent = [q |-> Text(HELLO), offset |-> Num(0),
                                     limit |-> Num(10), advanced |-> Bool(FALSE)]
            IN /\ e.handed.params # None
               /\ Shaped(e.handed.params)
               /\ Shaped(e.wire.query)

C2_Witness ==
    /\ call.op = "search"
    /\ call.index_id = Text(ABC_123)
    /\ call.q = Text(HELLO)
    /\ call.offset = Omitted /\ call.limit = Omitted
    /\ call.query_template = Omitted /\ call.advanced = Omitted
    /\ call.params = EmptyParams
    /\ Len(TransportEvents) = 1
    /\ DOMAIN TransportEvents[1].wire.query = {"q", "offset", "limit", "advanced"}

-----------------------------------------------------------------------------
(* C3: get_entry and delete_entry send no entry_id when it is absent, send *)
(* entry_id with exactly the given value when it is given, and send the    *)
(* given subject in both cases.                                            *)
C3_EntryParams ==
    (Called /\ call.op \in EntryOps) =>
        \A i \in DOMAIN TransportEvents :
            LET sent == TransportEvents[i].wire.query
            IN /\ "subject" \in DOMAIN sent /\ sent.subject = call.subject
               /\ call.entry_id \in {Omitted, None} => "entry_id" \notin DOMAIN sent
               /\ call.entry_id \notin {Omitted, None} =>
                      "entry_id" \in DOMAIN sent /\ sent.entry_id = call.entry_id

-----------------------------------------------------------------------------
(* C4: for get_subject, delete_subject, search, get_entry and delete_entry *)
(* the parameter set handed to the transport is a mapping that holds every *)
(* extra parameter of the caller with its value and, where the operation   *)
(* takes one, the subject given.                                           *)
C4_MergeKeepsBoth ==
    (Called /\ call.op \in (SubjectOps \cup EntryOps \cup {"search"})) =>
        \A i \in DOMAIN TransportEvents :
            LET handed == TransportEvents[i].handed.params
            IN /\ handed # None
               /\ \A k \in DOMAIN call.params :
                      k \in DOMAIN handed /\ handed[k] = call.params[k]
               /\ call.op \in (SubjectOps \cup EntryOps) =>
                      "subject" \in DOMAIN handed /\ handed.subject = call.subject

-----------------------------------------------------------------------------
(* C5: a call makes exactly one transport call and ends as that call ends: *)
(* it returns the response wrapper of a successful answer and raises the   *)
(* error of a failed one; an answer 404 {"code": "NotFound", "message":    *)
(* "no such index"} to get_index raises an error with status 404 and that  *)
(* message.                                                                *)
C5_OneCallOneOutcome ==
    Called =>
        /\ Len(TransportEvents) = 1
        /\ LET e == TransportEvents[1]
               ok == e.answer # NetworkFailure /\ e.answer.status \in 200..299
           IN /\ ok => /\ outcome.kind = "returned"
                       /\ outcome.value # None
                       /\ outcome.value.response = "GlobusHTTPResponse"
                       /\ outcome.value.http_status = e.answer.status
                       /\ outcome.value.data = e.answer.body
              /\ e.answer = NetworkFailure =>
                     outcome.kind = "raised" /\ outcome.value = NetworkFailure
              /\ (~ok /\ e.answer # NetworkFailure) =>
                     /\ outcome.kind = "raised"
                     /\ outcome.value.error = "SearchAPIError"
                     /\ outcome.value.http_status = e.answer.status
                     /\ outcome.value.message = e.answer.body.message
              /\ (call.op = "get_index" /\ e.answer = NotFoundResponse) =>
                     /\ outcome.kind = "raised"
                     /\ outcome.value.http_status = 404
                     /\ outcome.value.message = "no such index"

C5_Witness ==
    /\ call.op = "get_index"
    /\ Len(TransportEvents) = 1
    /\ TransportEvents[1].answer = NotFoundResponse
    /\ outcome.kind = "raised"
    /\ outcome.value.http_status = 404

-----------------------------------------------------------------------------
\* the named parameters of the call whose value is None, and the caller's
\* extra parameters whose value is None
AbsentNamed ==
    LET Absent(given, default) == Arg(given, default) = None
    IN IF call.op = "search"
       THEN {k \in {"offset", "limit", "query_template"} :
                \/ k = "offset" /\ Absent(call.offset, Num(0))
                \/ k = "limit" /\ Absent(call.limit, Num(10))
                \/ k = "query_template" /\ Absent(call.query_template, None)}
       ELSE IF call.op \in EntryOps
       THEN {k \in {"entry_id"} : Absent(call.entry_id, None)}
       ELSE {}

AbsentExtra == {k \in DOMAIN call.params : call.params[k] = None}

-----------------------------------------------------------------------------
(* C7 as stated: for every operation and every index identifier, exactly   *)
(* one segment of the path equals the identifier's string form and the     *)
(* path has no double separator.                                           *)
C7_ExactlyOneIdSegment ==
    Called =>
        \A i \in DOMAIN TransportEvents :
            LET path == TransportEvents[i].handed.path
                segs == PathSegments(path)
            IN /\ Cardinality({j \in DOMAIN segs : segs[j] = StrId}) = 1
               /\ ~HasDoubleSep(path)

\* the fixed segments that follow the identifier
TableTail ==
    [get_index |-> <<>>, search |-> <<SEARCH>>, post_search |-> <<SEARCH>>,
     ingest |-> <<INGEST>>, delete_by_query |-> <<DELETE_BY_QUERY>>,
     get_subject |-> <<SUBJECT>>, delete_subject |-> <<SUBJECT>>,
     get_entry |-> <<ENTRY>>, create_entry |-> <<ENTRY>>,
     update_entry |-> <<ENTRY>>, delete_entry |-> <<ENTRY>>,
     get_query_template |-> <<QUERY_TEMPLATE>>,
     get_query_template_list |-> <<QUERY_TEMPLATE>>]

(* C7 as amended: when the identifier's string form (and, for              *)
(* get_query_template, the template name) is not empty and holds no        *)
(* separator, the path has no double separator and its segments are v1,    *)
(* index, the identifier, then the operation's fixed segments (and the     *)
(* template name): the identifier is the third segment, whether or not     *)
(* another segment happens to be spelled like it.                          *)
C7_IdIsThirdSegment ==
    ( /\ Called
      /\ SeparatorFree(StrId)
      /\ call.op = "get_query_template" => SeparatorFree(call.template_name) )
    =>
        \A i \in DOMAIN TransportEvents :
            LET path == TransportEvents[i].handed.path
            IN /\ ~HasDoubleSep(path)
               /\ Head(path) = Sep
               /\ PathSegments(path) =
                      <<(<<"v", "1">>), (<<"i", "n", "d", "e", "x">>), StrId>>
                          \o TableTail[call.op]
                          \o (IF call.op = "get_query_template"
                              THEN <<call.template_name>> ELSE <<>>)

\* the identifier 10 (an integer) in the third segment, after coercion
C7_Witness ==
    /\ call.op = "get_query_template"
    /\ call.index_id = Num(10)
    /\ call.template_name = <<"1">>
    /\ Len(TransportEvents) = 1
    /\ PathSegments(TransportEvents[1].handed.path) =
           <<(<<"v", "1">>), (<<"i", "n", "d", "e", "x">>), (<<"1", "0">>),
             QUERY_TEMPLATE, (<<"1">>)>>

-----------------------------------------------------------------------------
TokenBearing ==
    {"AccessTokenAuthorizer", "RefreshTokenAuthorizer",
     "ClientCredentialsAuthorizer"}

(* C9: the client accepts exactly the three token-bearing authorizer       *)
(* classes: a client is constructed with each of them, none is constructed *)
(* with a basic-auth authorizer, and no request carries basic credentials. *)
C9_OnlyTokenAuthorizers ==
    /\ client.given # None =>
           (client.constructed <=> client.given.type \in TokenBearing)
    /\ client.constructed =>
           \/ client.authorizer = None
           \/ client.authorizer.type \in TokenBearing
    /\ \A i \in DOMAIN TransportEvents :
           "basic" \notin DOMAIN TransportEvents[i].wire.auth

\* the constructor has refused a basic-auth authorizer
C9_Witness ==
    /\ client.given = [type |-> "BasicAuthorizer"]
    /\ ~client.constructed
    /\ call = NoCall

-----------------------------------------------------------------------------
(* C10: every call writes exactly one log record, at level info, naming    *)
(* the operation and the index identifier, before its transport call, so   *)
(* the record is there whether the call returns or raises; the record of a *)
(* body operation holds the identifier only, never the request body.       *)
C10_OneLogRecordFirst ==
    Called =>
        /\ Len(LogEvents) = 1
        /\ events # <<>> /\ events[1].ev = "log"
        /\ LET rec == LogEvents[1]
           IN /\ rec.level = "info"
              /\ rec.name = call.op
              /\ rec.args # <<>> /\ rec.args[1] = Text(StrId)
              /\ call.op \in BodyOps =>
                     /\ rec.args = <<Text(StrId)>>
                     /\ \A j \in DOMAIN rec.args : rec.args[j] # call.data

\* a call that raised, with its log record written
C10_Witness ==
    /\ call.op = "ingest"
    /\ outcome.kind = "raised"
    /\ Len(LogEvents) = 1
    /\ LogEvents[1].name = "ingest"
    /\ LogEvents[1].args = <<Text(ABC_123)>>

-----------------------------------------------------------------------------
\* two calls with the same arguments have issued the same request
SameRequestForSameCall ==
    \A t, u \in Threads :
        ( /\ inv[t].pc \in {"waiting", "done"}
          /\ inv[u].pc \in {"waiting", "done"}
          /\ inv[t].call = inv[u].call )
        => inv[t].sent = inv[u].sent

\* the dict each caller passed is unchanged
CallerArgumentsKept ==
    \A t \in Threads :
        inv[t].pc # "idle" => inv[t].kw = CallerKw(inv[t].call)

====
